---- MODULE Spec2Model ----
(***************************************************************************)
(* A model of geoplot.py: GeoPlot.render turns a simulation's state        *)
(* trajectory into one GeoJSON FeatureCollection per entity, writes them   *)
(* to {name}.geojson and substitutes them, with the first and last         *)
(* synthesized timestamps, into {name}.html.                               *)
(*                                                                         *)
(* Times are whole seconds.  A hierarchical state is a record of records;  *)
(* a path is the sequence of keys re.split("/", var) yields.               *)
(***************************************************************************)
EXTENDS Integers, Sequences, FiniteSets, TLC

VARIABLES
    config,            \* self.config["simulation_metadata"]
    options,           \* the option fields __init__ copies into self
    pc,                \* position of the render call
    error,             \* the exception that ended the call, "" if none
    state_trajectory,  \* render's argument
    i,                 \* extraction loop index (episodes processed so far)
    coords,            \* render's local coords
    values,            \* render's local values
    start_time,        \* pd.Timestamp.utcnow() of this call
    timestamps,        \* render's local timestamps
    e,                 \* entity loop index (collections built so far)
    geojsons,          \* render's local geojsons
    geodata_file,      \* {name}.geojson on disk
    geoplot_file,      \* {name}.html on disk
    earlier            \* the previous completed call: argument, start time, result

vars == <<config, options, pc, error, state_trajectory, i, coords, values,
          start_time, timestamps, e, geojsons, geodata_file, geoplot_file,
          earlier>>

----------------------------------------------------------------------------
(* Bounds of the model. *)

\* longest trajectory (episodes) passed to render
MaxEpisodes == 3
\* most states in one episode
MaxSteps == 2
\* largest num_episodes and num_steps_per_episode of the config
MaxCount == 2

----------------------------------------------------------------------------
(* Inputs. *)

\* options["coordinates"] and options["feature"], split on "/"
PositionPath == <<"agents", "position">>
PropertyPath == <<"agents", "value">>

\* Simulation states: hierarchical mappings.  Two entities; one entity (and a
\* one-scalar property); two entities elsewhere, property in a column shape;
\* a state lacking the property; a state lacking the position.
SimStates ==
    { [agents |-> [position |-> <<<<1, 2>>, <<3, 4>>>>, value |-> <<<<10, 20>>>>]],
      [agents |-> [position |-> <<<<5, 6>>>>, value |-> <<<<30>>>>]],
      [agents |-> [position |-> <<<<7, 8>>, <<9, 1>>>>, value |-> <<<<40>>, <<50>>>>]],
      [agents |-> [position |-> <<<<1, 2>>, <<3, 4>>>>]],
      [agents |-> [value |-> <<<<10, 20>>>>]] }

\* States used for the steps of an episode before its last
EarlyStates ==
    { [agents |-> [position |-> <<<<5, 6>>>>, value |-> <<<<30>>>>]],
      [agents |-> [value |-> <<<<10, 20>>>>]] }

\* An episode of n states ending in s, the earlier ones all p
EpisodeOf(s, n, p) == [k \in 1..n |-> IF k = n THEN s ELSE p]

Episodes ==
    { EpisodeOf(s, n, p) : s \in SimStates, n \in 0..MaxSteps, p \in EarlyStates }

\* Trajectories whose episodes all have the same number of steps
TrajectoriesOfLen(L) ==
    { [j \in 1..L |-> EpisodeOf(lasts[j], n, p)] :
        lasts \in [1..L -> SimStates], n \in 0..MaxSteps, p \in EarlyStates }

Trajectories == UNION { TrajectoriesOfLen(L) : L \in 0..MaxEpisodes }

\* Trajectories differing from t in at most one episode
Variants(t) == {t} \cup { [t EXCEPT ![j] = ep] : j \in 1..Len(t), ep \in Episodes }

\* options["step_time"]
StepTimes == {-1, 0, 2}

\* wall clock readings, seconds
StartTimes == {100, 119}

----------------------------------------------------------------------------
(* Helpers. *)

Min(a, b) == IF a <= b THEN a ELSE b

\* get_by_path succeeds on the keys of path
RECURSIVE HasPath(_, _)
HasPath(state, path) ==
    IF path = <<>> THEN TRUE
    ELSE /\ Head(path) \in DOMAIN state
         /\ HasPath(state[Head(path)], Tail(path))

\* read_var(state, var): successive key lookups
RECURSIVE read_var(_, _)
read_var(state, path) ==
    IF path = <<>> THEN state ELSE read_var(state[Head(path)], Tail(path))

\* np.array(a).flatten().tolist() of a two-dimensional array: rows concatenated
RECURSIVE flatten(_)
flatten(a) == IF a = <<>> THEN <<>> ELSE Head(a) \o flatten(Tail(a))

\* variant: range(0, len(state_trajectory)), the final episode included
LoopRangeAll(traj) == 0 .. (Len(traj) - 1)

\* variant: range(1, len(state_trajectory) - 1), the first episode skipped
LoopRangeFromOne(traj) == 1 .. (Len(traj) - 2)

\* range(0, len(state_trajectory) - 1): the indices the loop visits
LoopRange(traj) == 0 .. (Len(traj) - 2)

\* state_trajectory[i][-1] (episodes are 1-indexed here)
FinalState(episode) == episode[Len(episode)]

\* variant: the first episode's coordinates are kept
KeepFirstCoords(old, new) == IF old = <<>> THEN new ELSE old

\* coords = ... : assignment, the old value is dropped
AssignCoords(old, new) == new

\* variant: k counted from 1
MakeTimestampsFromOne(start, step, n) == [k \in 1..n |-> start + k * step]

\* timestamps: start_time + Timedelta(seconds = k * step_time), k in range(n)
MakeTimestamps(start, step, n) == [k \in 1..n |-> start + (k - 1) * step]

\* Timestamp.isoformat(), reduced to minutes and seconds
isoformat(t) == [min |-> t \div 60, sec |-> t % 60]

\* the instant an isoformat string denotes
ParseIso(s) == s.min * 60 + s.sec

\* zip(timestamps, values): pairs, up to the shorter
Zip(ts, vs) == [k \in 1..Min(Len(ts), Len(vs)) |-> <<ts[k], vs[k]>>]

\* variant: the stored order, [coord[0], coord[1]]
StoredCoordinates(coord) == <<coord[1], coord[2]>>

\* the coordinates a feature carries for a stored coord
FeatureCoordinates(coord) == <<coord[2], coord[1]>>

\* one feature of the GeoJSON
Feature(coord, value, time) ==
    [type |-> "Feature",
     geometry |-> [type |-> "Point", coordinates |-> FeatureCoordinates(coord)],
     properties |-> [value |-> value, time |-> isoformat(time)]]

\* value_list[n] raises IndexError for some pair of the zip (n is 0-based)
IndexFails(n, ts, vs) == \E k \in DOMAIN Zip(ts, vs) : Len(Zip(ts, vs)[k][2]) <= n

\* variant: value_list[0] whatever the entity
FeaturesFirstScalar(n, cs, ts, vs) ==
    [k \in 1..Min(Len(ts), Len(vs)) |->
        [type |-> "Feature",
         geometry |-> [type |-> "Point", coordinates |-> <<cs[n + 1][2], cs[n + 1][1]>>],
         properties |-> [value |-> vs[k][1], time |-> [min |-> ts[k] \div 60, sec |-> ts[k] % 60]]]]

\* the features of entity n (0-based)
Features(n, cs, ts, vs) ==
    [k \in DOMAIN Zip(ts, vs) |->
        Feature(cs[n + 1], Zip(ts, vs)[k][2][n + 1], Zip(ts, vs)[k][1])]

FeatureCollection(features) == [type |-> "FeatureCollection", features |-> features]

\* variant: the last entity left out
EntitiesButLast(cs) == 0 .. (Len(cs) - 2)

\* the entities the assembly loop visits: enumerate(coords)
Entities(cs) == 0 .. (Len(cs) - 1)

\* variant: timestamps[0] for both bounds
SubstitutionFirstOnly(token, ts, data, visual) ==
    [accessToken |-> token,
     startTime |-> [min |-> ts[1] \div 60, sec |-> ts[1] % 60],
     stopTime |-> [min |-> ts[1] \div 60, sec |-> ts[1] % 60],
     data |-> data,
     visualType |-> visual]

\* the mapping given to Template.substitute
Substitution(token, ts, data, visual) ==
    [accessToken |-> token,
     startTime |-> isoformat(ts[1]),
     stopTime |-> isoformat(ts[Len(ts)]),
     data |-> data,
     visualType |-> visual]

\* files; a written file is held as the value json.dump or Template.substitute
\* is given, the text itself is not modelled
Absent == [status |-> "absent"]
Truncated == [status |-> "truncated"]
Written(content) == [status |-> "written", content |-> content]

NoEarlier == [valid |-> FALSE]

----------------------------------------------------------------------------
(* The state after GeoPlot(config, options). *)

Init ==
    /\ config \in [name : {"sim"},
                   num_episodes : 0..MaxCount,
                   num_steps_per_episode : 0..MaxCount]
    /\ options \in [cesium_token : {"token"},
                    step_time : StepTimes,
                    coordinates : {PositionPath},
                    feature : {PropertyPath},
                    visualization_type : {"color"}]
    /\ pc = "idle"
    /\ error = ""
    /\ state_trajectory = <<>>
    /\ i = 0
    /\ coords = <<>>
    /\ values = <<>>
    /\ start_time = 0
    /\ timestamps = <<>>
    /\ e = 0
    /\ geojsons = <<>>
    /\ geodata_file = Absent
    /\ geoplot_file = Absent
    /\ earlier = NoEarlier

----------------------------------------------------------------------------
(* render(state_trajectory) *)

Enter(traj) ==
    /\ state_trajectory' = traj
    /\ pc' = "extract"
    /\ error' = ""
    /\ i' = 0
    /\ coords' = <<>>
    /\ values' = <<>>
    /\ start_time' = 0
    /\ timestamps' = <<>>
    /\ e' = 0
    /\ geojsons' = <<>>
    /\ UNCHANGED <<config, options, geodata_file, geoplot_file>>

Fail(kind) ==
    /\ pc' = "failed"
    /\ error' = kind

\* the call, on a fresh object
Render ==
    /\ pc = "idle"
    /\ \E traj \in Trajectories : Enter(traj)
    /\ UNCHANGED earlier

\* a second call on the same object, after a completed one
RenderAgain ==
    /\ pc = "done"
    /\ ~earlier.valid
    /\ \E traj \in Variants(state_trajectory) : Enter(traj)
    /\ earlier' = [valid |-> TRUE, trajectory |-> state_trajectory,
                   start_time |-> start_time, geojsons |-> geojsons]

\* the state the loop body reads at index i can be read
CanExtract ==
    /\ state_trajectory[i + 1] # <<>>
    /\ HasPath(FinalState(state_trajectory[i + 1]), options.coordinates)
    /\ HasPath(FinalState(state_trajectory[i + 1]), options.feature)

\* one iteration of the extraction loop
ExtractStep ==
    /\ pc = "extract"
    /\ i \in LoopRange(state_trajectory)
    /\ CanExtract
    /\ LET final_state == FinalState(state_trajectory[i + 1])
       IN /\ coords' = AssignCoords(coords, read_var(final_state, options.coordinates))
          /\ values' = Append(values, flatten(read_var(final_state, options.feature)))
    /\ i' = i + 1
    /\ UNCHANGED <<config, options, pc, error, state_trajectory, start_time,
                   timestamps, e, geojsons, geodata_file, geoplot_file, earlier>>

\* an iteration that raises: empty episode, or a path the state lacks
ExtractFail ==
    /\ pc = "extract"
    /\ i \in LoopRange(state_trajectory)
    /\ ~CanExtract
    /\ Fail(IF state_trajectory[i + 1] = <<>> THEN "IndexError" ELSE "KeyError")
    /\ UNCHANGED <<config, options, state_trajectory, i, coords, values, start_time,
                   timestamps, e, geojsons, geodata_file, geoplot_file, earlier>>

\* the timestamps, after the loop
Synthesize ==
    /\ pc = "extract"
    /\ i \notin LoopRange(state_trajectory)
    /\ \E now \in StartTimes :
        /\ start_time' = now
        /\ timestamps' = MakeTimestamps(now, options.step_time,
                             config.num_episodes * config.num_steps_per_episode)
    /\ pc' = "assemble"
    /\ UNCHANGED <<config, options, error, state_trajectory, i, coords, values,
                   e, geojsons, geodata_file, geoplot_file, earlier>>

\* one iteration of the assembly loop: the collection of entity e
AssembleEntity ==
    /\ pc = "assemble"
    /\ e \in Entities(coords)
    /\ ~IndexFails(e, timestamps, values)
    /\ geojsons' = Append(geojsons,
                          FeatureCollection(Features(e, coords, timestamps, values)))
    /\ e' = e + 1
    /\ UNCHANGED <<config, options, pc, error, state_trajectory, i, coords, values,
                   start_time, timestamps, geodata_file, geoplot_file, earlier>>

\* value_list[i] raises
AssembleFail ==
    /\ pc = "assemble"
    /\ e \in Entities(coords)
    /\ IndexFails(e, timestamps, values)
    /\ Fail("IndexError")
    /\ UNCHANGED <<config, options, state_trajectory, i, coords, values, start_time,
                   timestamps, e, geojsons, geodata_file, geoplot_file, earlier>>

\* open(geodata_path, "w") and json.dump
WriteGeojson ==
    /\ pc = "assemble"
    /\ e \notin Entities(coords)
    /\ geodata_file' = Written(geojsons)
    /\ pc' = "html"
    /\ UNCHANGED <<config, options, error, state_trajectory, i, coords, values,
                   start_time, timestamps, e, geojsons, geoplot_file, earlier>>

\* the open fails (file untouched) or the dump fails (file truncated)
WriteGeojsonFail ==
    /\ pc = "assemble"
    /\ e \notin Entities(coords)
    /\ geodata_file' \in {geodata_file, Truncated}
    /\ Fail("OSError")
    /\ UNCHANGED <<config, options, state_trajectory, i, coords, values, start_time,
                   timestamps, e, geojsons, geoplot_file, earlier>>

\* open(geoplot_path, "w"), substitute, write
WriteHtml ==
    /\ pc = "html"
    /\ timestamps # <<>>
    /\ geoplot_file' = Written(Substitution(options.cesium_token, timestamps,
                                            geojsons, options.visualization_type))
    /\ pc' = "done"
    /\ UNCHANGED <<config, options, error, state_trajectory, i, coords, values,
                   start_time, timestamps, e, geojsons, geodata_file, earlier>>

\* timestamps[0] raises inside the with block: the file is opened, nothing written
WriteHtmlIndexError ==
    /\ pc = "html"
    /\ timestamps = <<>>
    /\ geoplot_file' = Truncated
    /\ Fail("IndexError")
    /\ UNCHANGED <<config, options, state_trajectory, i, coords, values, start_time,
                   timestamps, e, geojsons, geodata_file, earlier>>

\* the open fails (file untouched) or the write fails (file truncated)
WriteHtmlFail ==
    /\ pc = "html"
    /\ geoplot_file' \in {geoplot_file, Truncated}
    /\ Fail("OSError")
    /\ UNCHANGED <<config, options, state_trajectory, i, coords, values, start_time,
                   timestamps, e, geojsons, geodata_file, earlier>>

Call ==
    \/ ExtractStep
    \/ ExtractFail
    \/ Synthesize
    \/ AssembleEntity
    \/ AssembleFail
    \/ WriteGeojson
    \/ WriteGeojsonFail
    \/ WriteHtml
    \/ WriteHtmlIndexError
    \/ WriteHtmlFail

Next == Render \/ Call

Spec == Init /\ [][Next]_vars

\* two calls in a row, the second on a variant of the first's trajectory
NextTwice == Next \/ RenderAgain

\* objects whose config has no episodes, or the most
InitTwice ==
    /\ Init
    /\ config.num_episodes \in {0, MaxCount}
    /\ config.num_steps_per_episode = MaxCount
    /\ options.step_time > 0

SpecTwice == InitTwice /\ [][NextTwice]_vars

----------------------------------------------------------------------------
(* What the properties below speak of. *)

\* the extraction loop of this call has run to its end
AfterLoop == pc \in {"assemble", "html", "done"} \/ (pc = "failed" /\ start_time \in StartTimes)

\* the episode the loop read last (0-based index len(trajectory) - 2)
LastProcessed == state_trajectory[Len(state_trajectory) - 1]

\* the position array of the last state of an episode
PositionsOf(episode) == read_var(FinalState(episode), PositionPath)

\* the flattened property array of the last state of an episode
ScalarsOf(episode) == flatten(read_var(FinalState(episode), PropertyPath))

\* the configured number of timestamps
NumTimestamps == config.num_episodes * config.num_steps_per_episode

\* every feature of the collections built so far, with its entity and step
FeatureAt(n, k) == geojsons[n].features[k]

\* two trajectories agree on the last state of every episode but the final one
Agree(t1, t2) ==
    /\ Len(t1) = Len(t2)
    /\ \A j \in 1..(Len(t1) - 1) :
        /\ t1[j] # <<>>
        /\ t2[j] # <<>>
        /\ FinalState(t1[j]) = FinalState(t2[j])

----------------------------------------------------------------------------
(* C1: when render completes on a trajectory of at least two episodes, it   *)
(* has produced exactly one FeatureCollection per entity of the position    *)
(* array of the last processed episode, in entity order: the n-th           *)
(* collection is a FeatureCollection located at the n-th stored position.   *)
C1_OneCollectionPerEntity ==
    (pc = "done" /\ Len(state_trajectory) >= 2) =>
        /\ Len(geojsons) = Len(PositionsOf(LastProcessed))
        /\ \A n \in 1..Len(geojsons) :
            /\ geojsons[n].type = "FeatureCollection"
            /\ geojsons[n].features # <<>>
            /\ FeatureAt(n, 1).geometry.coordinates[2] = PositionsOf(LastProcessed)[n][1]

\* a completed call with one entity in the last processed episode and two in
\* the episodes before and after it
C1_Witness ==
    /\ pc = "done"
    /\ Len(state_trajectory) = 3
    /\ Len(geojsons) = 1
    /\ Len(PositionsOf(state_trajectory[1])) = 2
    /\ state_trajectory[3] # <<>>
    /\ HasPath(FinalState(state_trajectory[3]), PositionPath)
    /\ Len(PositionsOf(state_trajectory[3])) = 2

(* C2: every feature of every collection carries [lon, lat], the stored     *)
(* [lat, lon] pair of its entity in the resolved array with its two         *)
(* components swapped.                                                      *)
C2_CoordinateOrder ==
    \A n \in 1..Len(geojsons) : \A k \in 1..Len(geojsons[n].features) :
        /\ Len(FeatureAt(n, k).geometry.coordinates) = 2
        /\ FeatureAt(n, k).geometry.coordinates[1] = coords[n][2]
        /\ FeatureAt(n, k).geometry.coordinates[2] = coords[n][1]
        /\ FeatureAt(n, k).geometry.type = "Point"

\* a written collection whose entity is stored as lat 3, lon 4
C2_Witness ==
    /\ pc = "done"
    /\ Len(geojsons) = 2
    /\ coords[2] = <<3, 4>>
    /\ FeatureAt(2, 1).geometry.coordinates = <<4, 3>>

C4_EmptyTrajectoryRejected ==
    (pc # "idle" /\ Len(state_trajectory) < 2) =>
        /\ pc # "done"
        /\ geodata_file = Absent
        /\ geoplot_file = Absent

(* C5: a render that fails has written neither file, so the two files are   *)
(* both written or both absent.                                             *)
C5_NoPartialOutput ==
    /\ pc = "failed" => (geodata_file = Absent /\ geoplot_file = Absent)
    /\ pc \in {"failed", "done"} =>
        \/ geodata_file = Absent /\ geoplot_file = Absent
        \/ geodata_file.status = "written" /\ geoplot_file.status = "written"

C7_AsStated ==
    AfterLoop =>
        /\ Len(state_trajectory) >= 2 => Len(coords) = Len(PositionsOf(LastProcessed))
        /\ Len(values) = Len(state_trajectory) - 1
        /\ \A n \in 1..Len(geojsons) : Len(geojsons[n].features) = Len(values)

(* C7 amended: after the extraction loop len(coords) is the number of       *)
(* entities of the last processed episode (0 when none was processed),      *)
(* len(values) is the number of episodes processed - len(trajectory) - 1,   *)
(* or 0 for an empty trajectory - and the pairing consumes min(len(values), *)
(* num_episodes * num_steps_per_episode) timestamps for each entity: all of *)
(* len(values) only when the config supplies that many timestamps.          *)
C7_Lengths ==
    AfterLoop =>
        /\ Len(values) = i
        /\ Len(values) = IF state_trajectory = <<>> THEN 0 ELSE Len(state_trajectory) - 1
        /\ Len(state_trajectory) >= 2 => Len(coords) = Len(PositionsOf(LastProcessed))
        /\ Len(state_trajectory) < 2 => Len(coords) = 0
        /\ \A n \in 1..Len(geojsons) :
            /\ Len(geojsons[n].features) = Min(Len(values), NumTimestamps)
            /\ (Len(geojsons[n].features) = Len(values)) <=> (NumTimestamps >= Len(values))

\* two episodes processed, one timestamp: the pairing stops short of values
C7_Witness ==
    /\ pc = "done"
    /\ Len(values) = 2
    /\ Len(coords) = 2
    /\ Len(geojsons) = 2
    /\ Len(geojsons[1].features) = 1

(* C8: two calls with the same start time on trajectories of equal length   *)
(* that agree on the last state of every episode but the final one produce  *)
(* the same collections, whatever the final episode and the earlier states  *)
(* of any episode hold: the second call completes with the first's result,  *)
(* and nothing it reads makes it fail.                                      *)
C8_ReadsOnlyProcessedStates ==
    (earlier.valid /\ Agree(earlier.trajectory, state_trajectory)) =>
        /\ (pc = "done" /\ start_time = earlier.start_time) => geojsons = earlier.geojsons
        /\ pc = "failed" => error = "OSError"

\* a second completed call whose trajectory differs from the first's in the
\* last state of the final episode
C8_Witness ==
    /\ pc = "done"
    /\ earlier.valid
    /\ Agree(earlier.trajectory, state_trajectory)
    /\ start_time = earlier.start_time
    /\ Len(state_trajectory) = 3
    /\ earlier.trajectory[3] # <<>>
    /\ state_trajectory[3] # <<>>
    /\ FinalState(earlier.trajectory[3]) # FinalState(state_trajectory[3])
    /\ Len(state_trajectory[1]) # Len(state_trajectory[3])
    /\ Len(geojsons) = 2

(* C9: within the collection of an entity every feature has the same        *)
(* coordinates, those of the entity in the position array of the last       *)
(* processed episode; the positions of earlier episodes do not appear where *)
(* they differ.                                                             *)
C9_CoordinateOverwrite ==
    \A n \in 1..Len(geojsons) : \A k \in 1..Len(geojsons[n].features) :
        /\ n <= Len(PositionsOf(LastProcessed))
        /\ FeatureAt(n, k).geometry.coordinates = FeatureAt(n, 1).geometry.coordinates
        /\ FeatureAt(n, k).geometry.coordinates =
               <<PositionsOf(LastProcessed)[n][2], PositionsOf(LastProcessed)[n][1]>>
        /\ \A j \in 1..(Len(state_trajectory) - 2) :
               (/\ n <= Len(PositionsOf(state_trajectory[j]))
                /\ PositionsOf(state_trajectory[j])[n] # PositionsOf(LastProcessed)[n]) =>
                   FeatureAt(n, k).geometry.coordinates #
                       <<PositionsOf(state_trajectory[j])[n][2],
                         PositionsOf(state_trajectory[j])[n][1]>>

\* two features per entity, and the first episode stores the entities
\* elsewhere than the last processed one
C9_Witness ==
    /\ pc = "done"
    /\ Len(state_trajectory) = 3
    /\ Len(geojsons) = 2
    /\ Len(geojsons[2].features) = 2
    /\ PositionsOf(state_trajectory[1])[2] = <<3, 4>>
    /\ PositionsOf(state_trajectory[2])[2] = <<9, 1>>

(* C10: when render completes with step_time >= 0, the startTime and        *)
(* stopTime in the HTML are the first and the last timestamp, start_time    *)
(* and start_time + (num_episodes * num_steps_per_episode - 1) * step_time, *)
(* however many features there are, and the time of every feature lies      *)
(* between them.                                                            *)
C10_TimeBounds ==
    (pc = "done" /\ options.step_time >= 0) =>
        /\ geoplot_file.status = "written"
        /\ geoplot_file.content.startTime = isoformat(start_time)
        /\ geoplot_file.content.stopTime =
               isoformat(start_time + (NumTimestamps - 1) * options.step_time)
        /\ \A n \in 1..Len(geojsons) : \A k \in 1..Len(geojsons[n].features) :
            /\ ParseIso(geoplot_file.content.startTime)
                   <= ParseIso(FeatureAt(n, k).properties.time)
            /\ ParseIso(FeatureAt(n, k).properties.time)
                   <= ParseIso(geoplot_file.content.stopTime)

\* fewer features than timestamps, a positive step, times across a minute
C10_Witness ==
    /\ pc = "done"
    /\ options.step_time > 0
    /\ Len(geojsons) = 2
    /\ Len(geojsons[1].features) = 2
    /\ Len(timestamps) = 4
    /\ geoplot_file.content.startTime = [min |-> 1, sec |-> 59]
    /\ geoplot_file.content.stopTime = [min |-> 2, sec |-> 5]

====
